---- MODULE Spec2Model ----
(***************************************************************************)
(* rss-personal-radio: the Effects Processor (notebooks/vocoder.ipynb),    *)
(* the Daily Intro Generator (notebooks/daily_intro.ipynb), the cron       *)
(* wrapper run_jobs.sh and Feed Sync (mp3.py), as state machines.          *)
(***************************************************************************)
EXTENDS Integers, Sequences, FiniteSets, TLC

\* ------------------------------------------------------------------------
\* Bounds of the model
\* ------------------------------------------------------------------------
\* Longest waveform, in samples.
MaxLen == 2

\* ------------------------------------------------------------------------
\* Program constants
\* ------------------------------------------------------------------------
RING_MOD_FREQ == 400

\* Sample values; closed under multiplication by a carrier sample.
Samples == {-1, 0, 1}

\* Sample rates of the input file.  With RING_MOD_FREQ = 400 the carrier
\* phase at these rates is a whole number of quarter turns per sample, where
\* the sine is exactly -1, 0 or 1.
SampleRates == {800, 1600}

NoValue == [none |-> TRUE]

\* ------------------------------------------------------------------------
\* State of one Effects Processor run (vocoder.ipynb)
\* ------------------------------------------------------------------------
VARIABLES
    DO_PITCH_SHIFT, DO_RING_MOD, DO_BANDPASS, DO_FLANGER, DO_PHASER,
    input_file,   \* the audio file at the input path: NoValue when missing
    pc,           \* the cell about to run, or "done" / "aborted"
    y, sr,        \* what librosa.load returned (NoValue and 0 before it)
    y_current,    \* the work-in-progress array
    calls,        \* the effects invoked so far, each with the sr it was given
    OUTPUT_FILE,  \* the file at the output path: NoValue until written
    exit_status   \* -1 while running, 0 after the last cell, 1 on a raise

vocoderVars == <<DO_PITCH_SHIFT, DO_RING_MOD, DO_BANDPASS, DO_FLANGER, DO_PHASER,
                 input_file, pc, y, sr, y_current, calls, OUTPUT_FILE, exit_status>>

\* ------------------------------------------------------------------------
\* State of the Daily Intro Generator runs (daily_intro.ipynb) and of the
\* files and the board card they share
\* ------------------------------------------------------------------------
VARIABLES
    ipc,          \* per run: the step about to run, "idle", "done" or "aborted"
    dummy_text,   \* per run: the greeting
    audio,        \* per run: the stream text_to_speech.convert returned
    mp3_file,     \* per run: the open file object's position, in chunks
    waveform,     \* per run: what the Effects Processor holds in memory
    fs,           \* the files at the two fixed paths
    board,        \* the attachments of the board's cards, in upload order
    trace,        \* per run: the steps begun, in order
    failed_at,    \* per run: the step that raised ("" when none did)
    intro_exit,   \* per run: the exit status of the process (-1 while it runs)
    touched,      \* every access to a file: who, how, and who had written it
    overlapped    \* a run started while another was running

introVars == <<ipc, dummy_text, audio, mp3_file, waveform, fs, board, trace, failed_at,
               intro_exit, touched, overlapped>>

\* ------------------------------------------------------------------------
\* State of one run of the wrapper script (run_jobs.sh)
\* ------------------------------------------------------------------------
VARIABLES
    argc,             \* $#
    dir_found,        \* cd "$PROJECT_DIR" succeeds
    dotenv_present,   \* [ -f ".env" ]
    activate_present, \* [ -f ".../bin/activate" ]
    python_exit,      \* the status daily_intro.py ends with, once run
    wpc,              \* the step about to run, or "exited"
    env_loaded,       \* .env was sourced
    VIRTUAL_ENV,      \* the variable is set and not empty
    status,           \* $?
    python_ran,       \* python daily_intro.py was run
    echoed,           \* what the script wrote, with the stream it wrote to
    wrapper_exit      \* the exit status of the script (-1 while it runs)

wrapperVars == <<argc, dir_found, dotenv_present, activate_present, python_exit, wpc,
                 env_loaded, VIRTUAL_ENV, status, python_ran, echoed, wrapper_exit>>

\* ------------------------------------------------------------------------
\* State of Feed Sync (mp3.py) and of the board card it uploads to
\* ------------------------------------------------------------------------
VARIABLES
    feed,         \* the episodes the feed lists
    card,         \* the attachments of the feed's card, in upload order
    fpc,          \* "idle", "check", "download", "upload" or "failed"
    pending,      \* the episodes of the feed this run has yet to look at
    current,      \* the episode being downloaded and uploaded (0: none)
    sync_runs,    \* runs started so far
    skipped       \* the episodes some run found on the card and passed over

feedVars == <<feed, card, fpc, pending, current, sync_runs, skipped>>

notVocoder == <<introVars, wrapperVars, feedVars>>

notIntro == <<vocoderVars, wrapperVars, feedVars>>

notWrapper == <<vocoderVars, introVars, feedVars>>

notFeed == <<vocoderVars, introVars, wrapperVars>>

vars == <<vocoderVars, introVars, wrapperVars, feedVars>>

\* ------------------------------------------------------------------------
\* numpy arrays: a shape and the flat data
\* ------------------------------------------------------------------------
Array1D(data) == [shape |-> <<Len(data)>>, data |-> data]

ndim(a) == Len(a.shape)

Waveforms == UNION {[1..n -> Samples] : n \in 0..MaxLen}

\* np.expand_dims(a, axis=0)
expand_dims(a) == [shape |-> <<1>> \o a.shape, data |-> a.data]

\* np.squeeze(a, axis=0) is defined when the first axis has length 1
can_squeeze(a) == ndim(a) >= 1 /\ a.shape[1] = 1

\* Mutant: the added axis is kept.
squeeze_kept_axis(a) == a

squeeze(a) == [shape |-> Tail(a.shape), data |-> a.data]

\* What a library effect (librosa pitch_shift, scipy lfilter, a pedalboard
\* plugin) may return for an input array: any samples, in the input's shape.
LibraryOutputs(a) == {[shape |-> a.shape, data |-> d] : d \in [1..Len(a.data) -> Samples]}

\* ------------------------------------------------------------------------
\* Ring modulation carrier
\* ------------------------------------------------------------------------
\* Rationals as <<numerator, denominator>>.
Rat(n, d) == <<n, d>>

\* duration = len(y_current) / sr
Duration(n, rate) == Rat(n, rate)

\* Mutant: endpoint=True, step = duration / (n - 1).
linspace_endpoint(duration, n) ==
    [i \in 1..n |-> IF n = 1 THEN Rat(0, 1)
                    ELSE Rat((i - 1) * duration[1], duration[2] * (n - 1))]

\* np.linspace(0, duration, n, endpoint=False): step = duration / n,
\* t[i] = i * step for i = 0 .. n-1 (1-based here).
linspace(duration, n) ==
    [i \in 1..n |-> Rat((i - 1) * duration[1], duration[2] * n)]

\* sin(2 pi x) for x a whole number of quarter turns.
Sin4 == <<0, 1, 0, -1>>

\* np.sin(2.0 * np.pi * freq * t) for a rational t.
SinTwoPi(freq, t) == Sin4[(((4 * freq * t[1]) \div t[2]) % 4) + 1]

Carrier(n, rate) ==
    LET t == linspace(Duration(n, rate), n)
    IN  [i \in 1..n |-> SinTwoPi(RING_MOD_FREQ, t[i])]

\* y_current * carrier
RingModulate(a, rate) ==
    LET carrier == Carrier(Len(a.data), rate)
    IN  [shape |-> a.shape, data |-> [i \in 1..Len(a.data) |-> a.data[i] * carrier[i]]]

\* ------------------------------------------------------------------------
\* Initial state: constants set, nothing loaded
\* ------------------------------------------------------------------------
InputFiles == {[samples |-> w, samplerate |-> r] : w \in Waveforms, r \in SampleRates}

VocoderInit ==
    /\ DO_PITCH_SHIFT \in BOOLEAN
    /\ DO_RING_MOD \in BOOLEAN
    /\ DO_BANDPASS \in BOOLEAN
    /\ DO_FLANGER \in BOOLEAN
    /\ DO_PHASER \in BOOLEAN
    /\ input_file \in InputFiles \cup {NoValue}
    /\ pc = "load"
    /\ y = NoValue
    /\ sr = 0
    /\ y_current = NoValue
    /\ calls = <<>>
    /\ OUTPUT_FILE = NoValue
    /\ exit_status = -1

\* The Effects Processor is not run.
VocoderOff ==
    /\ DO_PITCH_SHIFT = FALSE
    /\ DO_RING_MOD = FALSE
    /\ DO_BANDPASS = FALSE
    /\ DO_FLANGER = FALSE
    /\ DO_PHASER = FALSE
    /\ input_file = NoValue
    /\ pc = "off"
    /\ y = NoValue
    /\ sr = 0
    /\ y_current = NoValue
    /\ calls = <<>>
    /\ OUTPUT_FILE = NoValue
    /\ exit_status = -1

toggleVars == <<DO_PITCH_SHIFT, DO_RING_MOD, DO_BANDPASS, DO_FLANGER, DO_PHASER>>

\* An uncaught exception: the interpreter stops and exits 1.
Abort ==
    /\ pc' = "aborted"
    /\ exit_status' = 1

\* Mutant: librosa.load without sr=None resamples to its default rate.
LoadCellDefaultRate ==
    /\ pc = "load"
    /\ IF input_file = NoValue
       THEN /\ Abort
            /\ UNCHANGED <<y, sr, y_current>>
       ELSE /\ y' = Array1D(input_file.samples)
            /\ sr' = 22050
            /\ y_current' = y'
            /\ pc' = "pitch_shift"
            /\ UNCHANGED exit_status
    /\ UNCHANGED notVocoder
    /\ UNCHANGED <<toggleVars, input_file, calls, OUTPUT_FILE>>

\* y, sr = librosa.load(path, sr=None); y_current = y.copy()
LoadCell ==
    /\ pc = "load"
    /\ IF input_file = NoValue
       THEN /\ Abort
            /\ UNCHANGED <<y, sr, y_current>>
       ELSE /\ y' = Array1D(input_file.samples)
            /\ sr' = input_file.samplerate
            /\ y_current' = y'
            /\ pc' = "pitch_shift"
            /\ UNCHANGED exit_status
    /\ UNCHANGED notVocoder
    /\ UNCHANGED <<toggleVars, input_file, calls, OUTPUT_FILE>>

Invoked(effect) == Append(calls, [effect |-> effect, sr |-> sr])

PitchShiftCell ==
    /\ pc = "pitch_shift"
    /\ IF DO_PITCH_SHIFT
       THEN /\ y_current' \in LibraryOutputs(y_current)
            /\ calls' = Invoked("pitch_shift")
       ELSE UNCHANGED <<y_current, calls>>
    /\ pc' = "ring_mod"
    /\ UNCHANGED notVocoder
    /\ UNCHANGED <<toggleVars, input_file, y, sr, OUTPUT_FILE, exit_status>>

RingModCell ==
    /\ pc = "ring_mod"
    /\ IF DO_RING_MOD
       THEN /\ y_current' = RingModulate(y_current, sr)
            /\ calls' = Invoked("ring_mod")
       ELSE UNCHANGED <<y_current, calls>>
    /\ pc' = "bandpass"
    /\ UNCHANGED notVocoder
    /\ UNCHANGED <<toggleVars, input_file, y, sr, OUTPUT_FILE, exit_status>>

\* Mutant: the filter runs whatever DO_BANDPASS says.
BandpassCellAlways ==
    /\ pc = "bandpass"
    /\ y_current' \in LibraryOutputs(y_current)
    /\ calls' = Invoked("bandpass")
    /\ pc' = "flanger"
    /\ UNCHANGED notVocoder
    /\ UNCHANGED <<toggleVars, input_file, y, sr, OUTPUT_FILE, exit_status>>

BandpassCell ==
    /\ pc = "bandpass"
    /\ IF DO_BANDPASS
       THEN /\ y_current' \in LibraryOutputs(y_current)
            /\ calls' = Invoked("bandpass")
       ELSE UNCHANGED <<y_current, calls>>
    /\ pc' = "flanger"
    /\ UNCHANGED notVocoder
    /\ UNCHANGED <<toggleVars, input_file, y, sr, OUTPUT_FILE, exit_status>>

\* y_2d = expand_dims(y_current); processed = board(y_2d, sample_rate=sr);
\* y_current = squeeze(processed)
PedalboardStep(effect, next) ==
    \E processed \in LibraryOutputs(expand_dims(y_current)) :
        /\ calls' = Invoked(effect)
        /\ IF can_squeeze(processed)
           THEN /\ y_current' = squeeze(processed)
                /\ pc' = next
                /\ UNCHANGED exit_status
           ELSE /\ Abort
                /\ UNCHANGED y_current

FlangerCell ==
    /\ pc = "flanger"
    /\ IF DO_FLANGER
       THEN PedalboardStep("flanger", "phaser")
       ELSE /\ pc' = "phaser"
            /\ UNCHANGED <<y_current, calls, exit_status>>
    /\ UNCHANGED notVocoder
    /\ UNCHANGED <<toggleVars, input_file, y, sr, OUTPUT_FILE>>

\* Mutant: the cell tests the flanger's toggle.
PhaserCellFlangerToggle ==
    /\ pc = "phaser"
    /\ IF DO_FLANGER
       THEN PedalboardStep("phaser", "write")
       ELSE /\ pc' = "write"
            /\ UNCHANGED <<y_current, calls, exit_status>>
    /\ UNCHANGED notVocoder
    /\ UNCHANGED <<toggleVars, input_file, y, sr, OUTPUT_FILE>>

PhaserCell ==
    /\ pc = "phaser"
    /\ IF DO_PHASER
       THEN PedalboardStep("phaser", "write")
       ELSE /\ pc' = "write"
            /\ UNCHANGED <<y_current, calls, exit_status>>
    /\ UNCHANGED notVocoder
    /\ UNCHANGED <<toggleVars, input_file, y, sr, OUTPUT_FILE>>

\* soundfile writes a 1-D array as one channel, a 2-D array as
\* (frames, channels).
Channels(a) == IF ndim(a) = 1 THEN 1 ELSE a.shape[2]

\* sf.write(OUTPUT_FILE, y_current, sr)
WriteCell ==
    /\ pc = "write"
    /\ OUTPUT_FILE' = [samples |-> y_current.data, samplerate |-> sr,
                       channels |-> Channels(y_current)]
    /\ pc' = "done"
    /\ exit_status' = 0
    /\ UNCHANGED notVocoder
    /\ UNCHANGED <<toggleVars, input_file, y, sr, y_current, calls>>

\* The library call of the current cell raises (unsupported format, an
\* effect failing, the output path not writable).
CallsLibrary ==
    \/ pc = "load" /\ input_file # NoValue
    \/ pc = "pitch_shift" /\ DO_PITCH_SHIFT
    \/ pc = "bandpass" /\ DO_BANDPASS
    \/ pc = "flanger" /\ DO_FLANGER
    \/ pc = "phaser" /\ DO_PHASER
    \/ pc = "write"

Raise ==
    /\ CallsLibrary
    /\ Abort
    /\ UNCHANGED notVocoder
    /\ UNCHANGED <<toggleVars, input_file, y, sr, y_current, calls, OUTPUT_FILE>>

\* ------------------------------------------------------------------------
\* Daily Intro Generator (daily_intro.ipynb)
\* ------------------------------------------------------------------------
\* Two cron triggers of the same script, in the same project directory.
Runs == {1, 2}

output_mp3_path == "temp/personal_daily_intro/eleven_personal_intro.mp3"

vocoded_output_path == "temp/personal_daily_intro/eleven_personal_intro.wav"

Paths == {output_mp3_path, vocoded_output_path}

\* The steps of a run, in the order of the script.
IntroSteps == <<"greeting", "tts", "open", "save", "vocode_load", "vocode_effects",
                "vocode_write", "upload">>

\* datetime.datetime.now()
Dates == {[weekday |-> "Monday", month |-> "November", day |-> 2, year |-> 2026],
          [weekday |-> "Saturday", month |-> "December", day |-> 21, year |-> 2025]}

\* "%d": the day of the month as two digits
TwoDigits(n) == <<n \div 10, n % 10>>

\* now.strftime("%A, %B %d, %Y")
strftime(now) == <<now.weekday, ", ", now.month, " ", TwoDigits(now.day), ", ", now.year>>

GreetingText(now) == <<"Good morning, Standard! Today is ">> \o strftime(now)

IntroInit ==
    /\ ipc = [r \in Runs |-> "idle"]
    /\ dummy_text = [r \in Runs |-> <<>>]
    /\ audio = [r \in Runs |-> NoValue]
    /\ mp3_file = [r \in Runs |-> NoValue]
    /\ waveform = [r \in Runs |-> NoValue]
    /\ fs = [p \in Paths |-> NoValue]
    /\ board = <<>>
    /\ trace = [r \in Runs |-> <<>>]
    /\ failed_at = [r \in Runs |-> ""]
    /\ intro_exit = [r \in Runs |-> -1]
    /\ touched = {}
    /\ overlapped = FALSE

Running(r) == ipc[r] \notin {"idle", "done", "aborted"}

\* The step after `step` in the script.
StepAfter(step) ==
    LET i == CHOOSE k \in 1..Len(IntroSteps) : IntroSteps[k] = step
    IN  IF i = Len(IntroSteps) THEN "done" ELSE IntroSteps[i + 1]

\* Run r begins the step it stands at and goes on to the next.
Advance(r) ==
    /\ trace' = [trace EXCEPT ![r] = Append(@, ipc[r])]
    /\ ipc' = [ipc EXCEPT ![r] = StepAfter(ipc[r])]
    /\ intro_exit' = [intro_exit EXCEPT ![r] = IF StepAfter(ipc[r]) = "done" THEN 0 ELSE @]
    /\ UNCHANGED failed_at

\* Mutant: the exception is caught and logged, and the script goes on.
IntroLogAndGoOn(r) ==
    /\ trace' = [trace EXCEPT ![r] = Append(@, ipc[r])]
    /\ ipc' = [ipc EXCEPT ![r] = StepAfter(ipc[r])]
    /\ failed_at' = [failed_at EXCEPT ![r] = ipc[r]]
    /\ intro_exit' = [intro_exit EXCEPT ![r] = IF StepAfter(ipc[r]) = "done" THEN 0 ELSE @]

\* The step run r stands at raises: nothing catches it, the process ends
\* with status 1.
IntroAbort(r) ==
    /\ trace' = [trace EXCEPT ![r] = Append(@, ipc[r])]
    /\ ipc' = [ipc EXCEPT ![r] = "aborted"]
    /\ failed_at' = [failed_at EXCEPT ![r] = ipc[r]]
    /\ intro_exit' = [intro_exit EXCEPT ![r] = 1]

\* A file: who last created or truncated it, and its chunks, each with
\* who wrote it.
EmptyFile(r) == [writer |-> r, chunks |-> <<>>]

\* Who wrote what is now at path p.
Owners(p) ==
    IF fs[p] = NoValue
    THEN {}
    ELSE {fs[p].writer} \cup {fs[p].chunks[i].by : i \in 1..Len(fs[p].chunks)}

Access(r, op, p) == [run |-> r, op |-> op, path |-> p, owners |-> Owners(p)]

\* file.write(chunk) at position pos: the chunk replaces what is there, or
\* extends the file.
WriteAt(chunks, pos, chunk) ==
    IF pos < Len(chunks)
    THEN [chunks EXCEPT ![pos + 1] = chunk]
    ELSE Append(chunks, chunk)

\* cron starts the script: imports, client = ElevenLabs()
StartRun(r) ==
    /\ ipc[r] = "idle"
    /\ ipc' = [ipc EXCEPT ![r] = "greeting"]
    /\ overlapped' = (overlapped \/ \E o \in Runs \ {r} : Running(o))
    /\ UNCHANGED <<dummy_text, audio, mp3_file, waveform, fs, board, trace, failed_at,
                   intro_exit, touched>>
    /\ UNCHANGED notIntro

\* now = datetime.datetime.now(); dummy_text = "Good morning, ..." + date
BuildGreeting(r) ==
    /\ ipc[r] = "greeting"
    /\ \E now \in Dates : dummy_text' = [dummy_text EXCEPT ![r] = GreetingText(now)]
    /\ Advance(r)
    /\ UNCHANGED <<audio, mp3_file, waveform, fs, board, touched, overlapped>>
    /\ UNCHANGED notIntro

\* os.makedirs(..., exist_ok=True); audio = client.text_to_speech.convert(...)
\* The stream is lazy: its chunks arrive while the file is written.
RequestTts(r) ==
    /\ ipc[r] = "tts"
    /\ audio' = [audio EXCEPT ![r] = [text |-> dummy_text[r]]]
    /\ Advance(r)
    /\ UNCHANGED <<dummy_text, mp3_file, waveform, fs, board, touched, overlapped>>
    /\ UNCHANGED notIntro

\* Mutant: open(output_mp3_path, "ab") keeps the file and writes at its end.
OpenMp3Append(r) ==
    /\ ipc[r] = "open"
    /\ fs' = [fs EXCEPT ![output_mp3_path] = IF @ = NoValue THEN EmptyFile(r) ELSE @]
    /\ mp3_file' = [mp3_file EXCEPT ![r] =
                       [pos |-> IF fs[output_mp3_path] = NoValue THEN 0
                                ELSE Len(fs[output_mp3_path].chunks)]]
    /\ touched' = touched \cup {Access(r, "write", output_mp3_path)}
    /\ Advance(r)
    /\ UNCHANGED <<dummy_text, audio, waveform, board, overlapped>>
    /\ UNCHANGED notIntro

\* open(output_mp3_path, "wb"): creates or truncates the file, position 0
OpenMp3(r) ==
    /\ ipc[r] = "open"
    /\ fs' = [fs EXCEPT ![output_mp3_path] = EmptyFile(r)]
    /\ mp3_file' = [mp3_file EXCEPT ![r] = [pos |-> 0]]
    /\ touched' = touched \cup {Access(r, "write", output_mp3_path)}
    /\ Advance(r)
    /\ UNCHANGED <<dummy_text, audio, waveform, board, overlapped>>
    /\ UNCHANGED notIntro

\* What run r writes at its position of the MP3 file.
WriteMp3(r, text) ==
    /\ fs' = [fs EXCEPT ![output_mp3_path].chunks =
                 WriteAt(@, mp3_file[r].pos, [by |-> r, kind |-> "mp3", text |-> text])]
    /\ mp3_file' = [mp3_file EXCEPT ![r] = NoValue]
    /\ touched' = touched \cup {Access(r, "write", output_mp3_path)}

\* for chunk in audio: mp3_file.write(chunk); the with block closes the file
SaveMp3(r) ==
    /\ ipc[r] = "save"
    /\ WriteMp3(r, audio[r].text)
    /\ Advance(r)
    /\ UNCHANGED <<dummy_text, audio, waveform, board, overlapped>>
    /\ UNCHANGED notIntro

\* The file vocode_audio is given to read.
vocode_input_path == output_mp3_path

\* vocode_audio(output_mp3_path, ...): librosa.load of the input path.  A
\* missing or empty file does not decode.
VocodeLoad(r) ==
    /\ ipc[r] = "vocode_load"
    /\ touched' = touched \cup {Access(r, "read", vocode_input_path)}
    /\ IF fs[vocode_input_path] = NoValue \/ fs[vocode_input_path].chunks = <<>>
       THEN /\ IntroAbort(r)
            /\ UNCHANGED waveform
       ELSE LET chunks == fs[vocode_input_path].chunks
            IN  /\ waveform' = [waveform EXCEPT ![r] =
                       [sources |-> {chunks[i].by : i \in 1..Len(chunks)},
                        text |-> [i \in 1..Len(chunks) |-> chunks[i].text],
                        processed |-> FALSE]]
                /\ Advance(r)
    /\ UNCHANGED <<dummy_text, audio, mp3_file, fs, board, overlapped>>
    /\ UNCHANGED notIntro

\* vocode_audio: the effects chain
VocodeEffects(r) ==
    /\ ipc[r] = "vocode_effects"
    /\ waveform' = [waveform EXCEPT ![r].processed = TRUE]
    /\ Advance(r)
    /\ UNCHANGED <<dummy_text, audio, mp3_file, fs, board, touched, overlapped>>
    /\ UNCHANGED notIntro

\* vocode_audio(..., vocoded_output_path): sf.write of the output path
VocodeWrite(r) ==
    /\ ipc[r] = "vocode_write"
    /\ fs' = [fs EXCEPT ![vocoded_output_path] =
                 [writer |-> r,
                  chunks |-> <<[by |-> r, kind |-> "wav", text |-> waveform[r].text]>>]]
    /\ touched' = touched \cup {Access(r, "write", vocoded_output_path)}
    /\ Advance(r)
    /\ UNCHANGED <<dummy_text, audio, mp3_file, waveform, board, overlapped>>
    /\ UNCHANGED notIntro

\* Mutant: the raw synthesized MP3 is attached.
UploadPathRaw == output_mp3_path

\* The file the upload step attaches.
UploadPath == vocoded_output_path

\* update_trello_card_audio("Daily Wakeup Intro", vocoded_output_path)
Upload(r) ==
    /\ ipc[r] = "upload"
    /\ touched' = touched \cup {Access(r, "upload", UploadPath)}
    /\ board' = Append(board, [card |-> "Daily Wakeup Intro", by |-> r,
                               path |-> UploadPath, file |-> fs[UploadPath]])
    /\ Advance(r)
    /\ UNCHANGED <<dummy_text, audio, mp3_file, waveform, fs, overlapped>>
    /\ UNCHANGED notIntro

\* The steps that call out of the script: the TTS API, the filesystem, the
\* audio libraries, the board API.
MayRaise == {"tts", "open", "save", "vocode_load", "vocode_effects", "vocode_write",
             "upload"}

\* A call of the current step raises (API or network failure, unwritable
\* path, unsupported format, an effect failing).  A stream that breaks while
\* the file is written may leave some of its chunks in the file.
IntroRaise(r) ==
    /\ ipc[r] \in MayRaise
    /\ IntroAbort(r)
    /\ IF ipc[r] = "save"
       THEN \/ UNCHANGED <<fs, touched, mp3_file>>
            \/ WriteMp3(r, "cut short")
       ELSE UNCHANGED <<fs, touched, mp3_file>>
    /\ UNCHANGED <<dummy_text, audio, waveform, board, overlapped>>
    /\ UNCHANGED notIntro

IntroNext ==
    \/ \E r \in Runs : StartRun(r)
    \/ \E r \in Runs : BuildGreeting(r)
    \/ \E r \in Runs : RequestTts(r)
    \/ \E r \in Runs : OpenMp3(r)
    \/ \E r \in Runs : SaveMp3(r)
    \/ \E r \in Runs : VocodeLoad(r)
    \/ \E r \in Runs : VocodeEffects(r)
    \/ \E r \in Runs : VocodeWrite(r)
    \/ \E r \in Runs : Upload(r)
    \/ \E r \in Runs : IntroRaise(r)

\* ------------------------------------------------------------------------
\* Wrapper script (run_jobs.sh)
\* ------------------------------------------------------------------------
\* Exit statuses of python daily_intro.py: success, an uncaught exception,
\* python not found.
PythonExits == {0, 1, 127}

WrapperInit ==
    /\ argc \in {0, 1}
    /\ dir_found \in BOOLEAN
    /\ dotenv_present \in BOOLEAN
    /\ activate_present \in BOOLEAN
    /\ python_exit \in PythonExits
    /\ wpc = "check_args"
    /\ env_loaded = FALSE
    /\ VIRTUAL_ENV \in BOOLEAN
    /\ status = 0
    /\ python_ran = FALSE
    /\ echoed = <<>>
    /\ wrapper_exit = -1

WrapperOff ==
    /\ argc = 0
    /\ dir_found = FALSE
    /\ dotenv_present = FALSE
    /\ activate_present = FALSE
    /\ python_exit = 0
    /\ wpc = "off"
    /\ env_loaded = FALSE
    /\ VIRTUAL_ENV = FALSE
    /\ status = 0
    /\ python_ran = FALSE
    /\ echoed = <<>>
    /\ wrapper_exit = -1

wrapperInputs == <<argc, dir_found, dotenv_present, activate_present, python_exit>>

echo(stream, text) == Append(echoed, [stream |-> stream, text |-> text])

\* exit n
exit(n) ==
    /\ wpc' = "exited"
    /\ wrapper_exit' = n

\* if [ $# -lt 1 ]; then echo "Usage: ..."; exit 1; fi
CheckArgs ==
    /\ wpc = "check_args"
    /\ IF argc < 1
       THEN /\ echoed' = echo("stdout", "Usage")
            /\ exit(1)
       ELSE /\ wpc' = "cd"
            /\ UNCHANGED <<echoed, wrapper_exit>>
    /\ UNCHANGED <<wrapperInputs, env_loaded, VIRTUAL_ENV, status, python_ran>>
    /\ UNCHANGED notWrapper

\* cd "$PROJECT_DIR" || { echo "Project directory not found ..."; exit 1; }
ChangeDir ==
    /\ wpc = "cd"
    /\ IF dir_found
       THEN /\ wpc' = "dotenv"
            /\ UNCHANGED <<echoed, wrapper_exit>>
       ELSE /\ echoed' = echo("stdout", "Project directory not found")
            /\ exit(1)
    /\ UNCHANGED <<wrapperInputs, env_loaded, VIRTUAL_ENV, status, python_ran>>
    /\ UNCHANGED notWrapper

\* if [ -f ".env" ]; then set -o allexport; source .env; set +o allexport; fi
LoadDotenv ==
    /\ wpc = "dotenv"
    /\ env_loaded' = dotenv_present
    /\ wpc' = "activate"
    /\ UNCHANGED <<wrapperInputs, VIRTUAL_ENV, status, python_ran, echoed, wrapper_exit>>
    /\ UNCHANGED notWrapper

\* if [ -f ".../activate" ]; then source ...; else echo ...; echo ...; exit 1; fi
\* A virtualenv's activate sets VIRTUAL_ENV.
Activate ==
    /\ wpc = "activate"
    /\ IF activate_present
       THEN /\ VIRTUAL_ENV' = TRUE
            /\ wpc' = "python"
            /\ UNCHANGED <<echoed, wrapper_exit>>
       ELSE /\ echoed' = echo("stdout", "Could not find virtual environment")
            /\ exit(1)
            /\ UNCHANGED VIRTUAL_ENV
    /\ UNCHANGED <<wrapperInputs, env_loaded, status, python_ran>>
    /\ UNCHANGED notWrapper

\* echo "Running daily_intro.py..."; python daily_intro.py
RunPython ==
    /\ wpc = "python"
    /\ echoed' = echo("stdout", "Running daily_intro.py...")
    /\ python_ran' = TRUE
    /\ status' = python_exit
    /\ wpc' = "check_status"
    /\ UNCHANGED <<wrapperInputs, env_loaded, VIRTUAL_ENV, wrapper_exit>>
    /\ UNCHANGED notWrapper

\* if [ $? -ne 0 ]; then echo "daily_intro.py encountered an error." >&2; fi
CheckStatus ==
    /\ wpc = "check_status"
    /\ echoed' = IF status # 0
                 THEN echo("stderr", "daily_intro.py encountered an error.")
                 ELSE echoed
    /\ status' = 0
    /\ wpc' = "deactivate"
    /\ UNCHANGED <<wrapperInputs, env_loaded, VIRTUAL_ENV, python_ran, wrapper_exit>>
    /\ UNCHANGED notWrapper

\* if [ -n "$VIRTUAL_ENV" ]; then deactivate; fi
Deactivate ==
    /\ wpc = "deactivate"
    /\ VIRTUAL_ENV' = FALSE
    /\ wpc' = "finish"
    /\ UNCHANGED <<wrapperInputs, env_loaded, status, python_ran, echoed, wrapper_exit>>
    /\ UNCHANGED notWrapper

\* Mutant: the script ends with exit and the status of daily_intro.py.
JobsCompletedPropagating ==
    /\ wpc = "finish"
    /\ echoed' = echo("stdout", "Jobs completed.")
    /\ status' = 0
    /\ exit(python_exit)
    /\ UNCHANGED <<wrapperInputs, env_loaded, VIRTUAL_ENV, python_ran>>
    /\ UNCHANGED notWrapper

\* echo "Jobs completed." is the last command: the script ends with its
\* status.
JobsCompleted ==
    /\ wpc = "finish"
    /\ echoed' = echo("stdout", "Jobs completed.")
    /\ status' = 0
    /\ exit(status')
    /\ UNCHANGED <<wrapperInputs, env_loaded, VIRTUAL_ENV, python_ran>>
    /\ UNCHANGED notWrapper

WrapperNext ==
    \/ CheckArgs
    \/ ChangeDir
    \/ LoadDotenv
    \/ Activate
    \/ RunPython
    \/ CheckStatus
    \/ Deactivate
    \/ JobsCompleted

\* ------------------------------------------------------------------------
\* Feed Sync (mp3.py): fetch, check the card, download, upload
\* ------------------------------------------------------------------------
\* Episodes a feed may list.
MaxEpisodes == 3

\* Sequential runs against the unchanged feed.
MaxSyncRuns == 2

Episodes == 1..MaxEpisodes

FeedInit ==
    /\ feed \in SUBSET Episodes
    /\ card \in {<<>>} \cup {<<e>> : e \in Episodes}
    /\ fpc = "idle"
    /\ pending = {}
    /\ current = 0
    /\ sync_runs = 0
    /\ skipped = {}

FeedOff ==
    /\ feed = {}
    /\ card = <<>>
    /\ fpc = "off"
    /\ pending = {}
    /\ current = 0
    /\ sync_runs = 0
    /\ skipped = {}

\* Mutant: the card is not looked at.
NeverAttached(e) == FALSE

\* "does a matching attachment already exist" on the card
AlreadyAttached(e) == \E i \in 1..Len(card) : card[i] = e

\* A run starts and fetches the feed.
FetchFeed ==
    /\ fpc = "idle"
    /\ sync_runs < MaxSyncRuns
    /\ sync_runs' = sync_runs + 1
    /\ pending' = feed
    /\ fpc' = "check"
    /\ UNCHANGED <<feed, card, current, skipped>>
    /\ UNCHANGED notFeed

\* The next episode is on the card already: nothing to do for it.
SkipEpisode ==
    /\ fpc = "check"
    /\ \E e \in pending :
        /\ AlreadyAttached(e)
        /\ pending' = pending \ {e}
        /\ skipped' = skipped \cup {e}
    /\ UNCHANGED <<feed, card, fpc, current, sync_runs>>
    /\ UNCHANGED notFeed

\* The next episode is not on the card: download its audio.
DownloadEpisode ==
    /\ fpc = "check"
    /\ \E e \in pending :
        /\ ~AlreadyAttached(e)
        /\ pending' = pending \ {e}
        /\ current' = e
    /\ fpc' = "upload"
    /\ UNCHANGED <<feed, card, sync_runs, skipped>>
    /\ UNCHANGED notFeed

\* Upload the downloaded file to the card.
UploadEpisode ==
    /\ fpc = "upload"
    /\ card' = Append(card, current)
    /\ current' = 0
    /\ fpc' = "check"
    /\ UNCHANGED <<feed, pending, sync_runs, skipped>>
    /\ UNCHANGED notFeed

\* Every episode of the feed was looked at: the run ends.
FinishSync ==
    /\ fpc = "check"
    /\ pending = {}
    /\ fpc' = "idle"
    /\ UNCHANGED <<feed, card, pending, current, sync_runs, skipped>>
    /\ UNCHANGED notFeed

\* A download or an upload fails: the error is logged and the run ends.
SyncFails ==
    /\ fpc \in {"check", "upload"}
    /\ fpc = "check" => pending # {}
    /\ fpc' = "idle"
    /\ pending' = {}
    /\ current' = 0
    /\ UNCHANGED <<feed, card, sync_runs, skipped>>
    /\ UNCHANGED notFeed

FeedNext ==
    \/ FetchFeed
    \/ SkipEpisode
    \/ DownloadEpisode
    \/ UploadEpisode
    \/ FinishSync
    \/ SyncFails

\* ------------------------------------------------------------------------
\* Specifications
\* ------------------------------------------------------------------------
IntroOff ==
    /\ ipc = [r \in Runs |-> "off"]
    /\ dummy_text = [r \in Runs |-> <<>>]
    /\ audio = [r \in Runs |-> NoValue]
    /\ mp3_file = [r \in Runs |-> NoValue]
    /\ waveform = [r \in Runs |-> NoValue]
    /\ fs = [p \in Paths |-> NoValue]
    /\ board = <<>>
    /\ trace = [r \in Runs |-> <<>>]
    /\ failed_at = [r \in Runs |-> ""]
    /\ intro_exit = [r \in Runs |-> -1]
    /\ touched = {}
    /\ overlapped = FALSE

Init ==
    /\ VocoderInit
    /\ IntroOff
    /\ WrapperOff
    /\ FeedOff

Next ==
    \/ LoadCell
    \/ PitchShiftCell
    \/ RingModCell
    \/ BandpassCell
    \/ FlangerCell
    \/ PhaserCell
    \/ WriteCell
    \/ Raise

Spec == Init /\ [][Next]_vars

\* The Daily Intro Generator, started twice.
InitIntro ==
    /\ IntroInit
    /\ VocoderOff
    /\ WrapperOff
    /\ FeedOff

SpecIntro == InitIntro /\ [][IntroNext]_vars

\* The wrapper script, in every environment.
InitWrapper ==
    /\ WrapperInit
    /\ VocoderOff
    /\ IntroOff
    /\ FeedOff

SpecWrapper == InitWrapper /\ [][WrapperNext]_vars

\* Feed Sync, run again and again against one feed.
InitFeed ==
    /\ FeedInit
    /\ VocoderOff
    /\ IntroOff
    /\ WrapperOff

SpecFeed == InitFeed /\ [][FeedNext]_vars

\* Either script, run on its own.
InitScripts == Init \/ InitIntro

NextScripts == Next \/ IntroNext

SpecScripts == InitScripts /\ [][NextScripts]_vars

\* ------------------------------------------------------------------------
\* Properties
\* ------------------------------------------------------------------------
IsPrefix(s, t) == Len(s) <= Len(t) /\ s = SubSeq(t, 1, Len(s))

Position(seq, x) == CHOOSE k \in 1..Len(seq) : seq[k] = x

\* The effects, in the order the specification gives them.
Chain == <<"pitch_shift", "ring_mod", "bandpass", "flanger", "phaser">>

Toggle(effect) ==
    CASE effect = "pitch_shift" -> DO_PITCH_SHIFT
      [] effect = "ring_mod" -> DO_RING_MOD
      [] effect = "bandpass" -> DO_BANDPASS
      [] effect = "flanger" -> DO_FLANGER
      [] effect = "phaser" -> DO_PHASER

AppliedEffects == [i \in 1..Len(calls) |-> calls[i].effect]

\* The enabled effects among the first k of the chain.
EnabledAmongFirst(k) == SelectSeq(SubSeq(Chain, 1, k), Toggle)

AllOff == \A i \in 1..Len(Chain) : ~Toggle(Chain[i])

\* C1: for every combination of the five toggles the effects applied are
\* exactly the enabled ones, each once, in the order pitch shift, ring
\* modulation, bandpass, flanger, phaser: when the cell of the k-th effect
\* is about to run, the enabled ones among the first k-1 have been applied
\* and no other; the output file exists only once all enabled effects have
\* been applied.
C1_EffectsInFixedOrder ==
    /\ pc = "load" => calls = <<>>
    /\ \A k \in 1..Len(Chain) : pc = Chain[k] => AppliedEffects = EnabledAmongFirst(k - 1)
    /\ pc \in {"write", "done"} => AppliedEffects = EnabledAmongFirst(Len(Chain))
    /\ pc = "aborted" => IsPrefix(AppliedEffects, EnabledAmongFirst(Len(Chain)))
    /\ OUTPUT_FILE # NoValue => pc = "done" /\ AppliedEffects = EnabledAmongFirst(Len(Chain))

C1_Witness ==
    /\ pc = "done"
    /\ OUTPUT_FILE # NoValue
    /\ DO_PITCH_SHIFT /\ ~DO_RING_MOD /\ DO_BANDPASS /\ ~DO_FLANGER /\ DO_PHASER
    /\ AppliedEffects = <<"pitch_shift", "bandpass", "phaser">>

\* C2: the sample rate is the input file's throughout: sr once loaded, the
\* sr every effect is invoked with, and the rate of the output file.
C2_SampleRatePreserved ==
    /\ pc \notin {"load", "aborted"} => sr # 0
    /\ sr # 0 => sr = input_file.samplerate
    /\ \A i \in 1..Len(calls) : calls[i].sr = input_file.samplerate
    /\ OUTPUT_FILE # NoValue => OUTPUT_FILE.samplerate = input_file.samplerate

C2_Witness ==
    /\ pc = "done"
    /\ Len(calls) = Len(Chain)
    /\ input_file.samplerate = 800
    /\ OUTPUT_FILE.samplerate = 800

\* C3: a cell whose toggle is False leaves y_current (and the record of
\* applied effects) unchanged; a cell whose toggle is True applies its
\* effect whatever the other toggles are; the loaded array y is never
\* modified; with all five toggles False the samples written are those
\* loaded.
C3_TogglesIndependent ==
    [][ /\ y # NoValue => y' = y
        /\ \A k \in 1..Len(Chain) :
              /\ (pc = Chain[k] /\ ~Toggle(Chain[k])) =>
                    (y_current' = y_current /\ calls' = calls)
              /\ (pc = Chain[k] /\ Toggle(Chain[k]) /\ pc' # "aborted") =>
                    AppliedEffects' = Append(AppliedEffects, Chain[k])
        /\ (AllOff /\ pc = "write" /\ pc' = "done") => OUTPUT_FILE'.samples = y.data
      ]_vars

C3_Witness ==
    /\ AllOff
    /\ pc = "done"
    /\ Len(y.data) = MaxLen
    /\ \E i \in 1..Len(y.data) : y.data[i] # 0
    /\ OUTPUT_FILE.samples = y.data

\* C9: y and y_current are one-dimensional in every state, with as many
\* samples as the shape says, and the output file has one channel.
C9_StaysMono ==
    /\ y # NoValue => ndim(y) = 1
    /\ y_current # NoValue => ndim(y_current) = 1 /\ y_current.shape[1] = Len(y_current.data)
    /\ OUTPUT_FILE # NoValue => OUTPUT_FILE.channels = 1

C9_Witness ==
    /\ pc = "done"
    /\ DO_FLANGER /\ DO_PHASER
    /\ AppliedEffects = <<"flanger", "phaser">>
    /\ Len(OUTPUT_FILE.samples) = MaxLen
    /\ OUTPUT_FILE.channels = 1

\* C10: the ring modulation cell, when enabled, yields as many samples as it
\* was given, sample i being the given sample i times sin(2 pi f t_i) with
\* f = RING_MOD_FREQ and t_i = i / sr, i counted from 0, whatever the
\* pitch-shift cell left in y_current.
C10_RingModulation ==
    [][ (pc = "ring_mod" /\ DO_RING_MOD) =>
            /\ Len(y_current'.data) = Len(y_current.data)
            /\ y_current'.shape = y_current.shape
            /\ \A i \in 1..Len(y_current.data) :
                  y_current'.data[i] =
                      y_current.data[i] * SinTwoPi(RING_MOD_FREQ, Rat(i - 1, sr))
      ]_vars

C10_Witness ==
    /\ pc = "bandpass"
    /\ sr = 1600
    /\ AppliedEffects = <<"pitch_shift", "ring_mod">>
    /\ Len(y_current.data) = MaxLen
    /\ y_current.data[1] = 0
    /\ y_current.data[2] # 0

UploadsBy(r) == {i \in 1..Len(board) : board[i].by = r}

\* C5: a run goes through its steps in the order of the script, each once;
\* it uploads at most once, to the 'Daily Wakeup Intro' card, after the
\* Effects Processor wrote its output, and what it uploads is the file at
\* the WAV path, a processed WAV and not the MP3.
C5_IntroInSequence ==
    \A r \in Runs :
        /\ IsPrefix(trace[r], IntroSteps)
        /\ Cardinality(UploadsBy(r)) <= 1
        /\ \A i \in UploadsBy(r) :
              /\ board[i].card = "Daily Wakeup Intro"
              /\ board[i].path = vocoded_output_path
              /\ \A j \in 1..Len(board[i].file.chunks) : board[i].file.chunks[j].kind = "wav"
              /\ IsPrefix(SubSeq(IntroSteps, 1, Position(IntroSteps, "upload")), trace[r])
              /\ waveform[r].processed

C5_Witness ==
    /\ ipc[1] = "done"
    /\ trace[1] = IntroSteps
    /\ Cardinality(UploadsBy(1)) = 1

\* C6: a step that raises ends the run: the run stands aborted with exit
\* status 1, the steps it began are those of the script up to the one that
\* raised, each once, it uploaded nothing, and when the step that raised
\* comes before the Effects Processor's write, it wrote no output file.
\* The Effects Processor run on its own: aborted, it exits 1 and has written
\* no output file.
C6_FailureAborts ==
    /\ \A r \in Runs :
          /\ (ipc[r] = "aborted") = (failed_at[r] # "")
          /\ failed_at[r] # "" =>
                /\ intro_exit[r] = 1
                /\ trace[r] = SubSeq(IntroSteps, 1, Position(IntroSteps, failed_at[r]))
                /\ UploadsBy(r) = {}
                /\ Position(IntroSteps, failed_at[r]) < Position(IntroSteps, "vocode_write")
                      => \A e \in touched :
                            ~(e.run = r /\ e.op = "write" /\ e.path = vocoded_output_path)
    /\ pc = "aborted" => OUTPUT_FILE = NoValue /\ exit_status = 1
    /\ exit_status = 0 => pc = "done"

C6_Witness ==
    /\ failed_at[1] = "vocode_effects"
    /\ ipc[1] = "aborted"
    /\ ipc[2] = "done"
    /\ Cardinality(UploadsBy(2)) = 1

\* C7: the wrapper exits 1 exactly when the username is missing, the project
\* directory cannot be entered or the activate file does not exist, and then
\* has not run daily_intro.py; every run that reaches daily_intro.py exits
\* 0, whatever daily_intro.py exits with, a failure being echoed to stderr.
C7_WrapperExitStatus ==
    /\ python_ran => (argc >= 1 /\ dir_found /\ activate_present)
    /\ wpc = "exited" =>
          /\ wrapper_exit \in {0, 1}
          /\ (wrapper_exit = 1) = (argc < 1 \/ ~dir_found \/ ~activate_present)
          /\ wrapper_exit = 1 => ~python_ran
          /\ wrapper_exit = 0 => python_ran
          /\ python_ran =>
                ((python_exit # 0) =
                    (\E i \in 1..Len(echoed) : echoed[i].stream = "stderr"))

C7_Witness ==
    /\ wpc = "exited"
    /\ python_ran
    /\ python_exit = 1
    /\ wrapper_exit = 0

\* C8 as stated: no run reads, overwrites or uploads a file another run
\* wrote.
C8_NoForeignFile == \A e \in touched : e.owners \subseteq {e.run}

\* C8 as amended: runs that do not overlap read and upload only files they
\* wrote themselves (they do overwrite the files an earlier run left).
C8_OwnFilesUnlessOverlapping ==
    ~overlapped =>
        \A e \in touched : e.op \in {"read", "upload"} => e.owners = {e.run}

C8_Witness ==
    /\ ~overlapped
    /\ ipc[1] = "done"
    /\ ipc[2] = "done"
    /\ [run |-> 2, op |-> "write", path |-> output_mp3_path, owners |-> {1}] \in touched
    /\ [run |-> 2, op |-> "read", path |-> output_mp3_path, owners |-> {2}] \in touched
    /\ [run |-> 2, op |-> "upload", path |-> vocoded_output_path, owners |-> {2}] \in touched

Occurrences(e) == Cardinality({i \in 1..Len(card) : card[i] = e})

\* C4: however often Feed Sync runs against the unchanged feed, no episode
\* is on the card more than once.
C4_NoDuplicateUpload == \A e \in Episodes : Occurrences(e) <= 1

C4_Witness ==
    /\ sync_runs = MaxSyncRuns
    /\ fpc = "idle"
    /\ feed = Episodes
    /\ skipped = feed
    /\ Len(card) = MaxEpisodes

====
